---- MODULE Spec2Model ----
(***************************************************************************)
(* The game-upload endpoint of modal/upload.py: one POST handler, upload,  *)
(* that authorises a request, validates the uploaded zip archive and       *)
(* writes its files to an object store (R2) with put_object.               *)
(*                                                                         *)
(* A Python str is a sequence of one-character strings, so that            *)
(* startswith, endswith, split, lower and rstrip are computed character by *)
(* character.  An optional value (None or a value) is a sequence of length *)
(* 0 or 1.                                                                 *)
(*                                                                         *)
(* Requests are taken one after the other: the only await of the handler   *)
(* is the read of the upload, before any write, and every property below   *)
(* is about what one request does to the bucket.                           *)
(***************************************************************************)
EXTENDS Integers, Sequences, FiniteSets, TLC

\* Longest enumerated archive (number of zip records) of a request.
MaxEntries == 2
\* Number of requests of one behaviour of SpecRepublish.
MaxRequests == 2
\* Longest enumerated input of the name sanitizer.
MaxNameLen == 2

None == <<>>
Some(v) == <<v>>

(***************************************************************************)
(* Characters and the str methods the handler uses (ASCII).                *)
(***************************************************************************)
LowerLetters ==
    <<"a","b","c","d","e","f","g","h","i","j","k","l","m",
      "n","o","p","q","r","s","t","u","v","w","x","y","z">>
UpperLetters ==
    <<"A","B","C","D","E","F","G","H","I","J","K","L","M",
      "N","O","P","Q","R","S","T","U","V","W","X","Y","Z">>
Digits == {"0","1","2","3","4","5","6","7","8","9"}

Range(s) == {s[i] : i \in DOMAIN s}

\* str.isalnum on one character
IsAlnum(c) == c \in Range(LowerLetters) \cup Range(UpperLetters) \cup Digits

\* str.lower on one character
LowerChar(c) ==
    IF \E i \in DOMAIN UpperLetters : UpperLetters[i] = c
    THEN LowerLetters[CHOOSE i \in DOMAIN UpperLetters : UpperLetters[i] = c]
    ELSE c

\* str.lower
Lower(s) == [i \in 1..Len(s) |-> LowerChar(s[i])]

\* s.startswith(p)
StartsWith(s, p) == Len(s) >= Len(p) /\ SubSeq(s, 1, Len(p)) = p

\* s.endswith(p)
EndsWith(s, p) == Len(s) >= Len(p) /\ SubSeq(s, Len(s) - Len(p) + 1, Len(s)) = p

\* c in s
HasChar(s, c) == \E i \in 1..Len(s) : s[i] = c

\* index of the first c in s (s holds one)
FirstIndex(s, c) == CHOOSE i \in 1..Len(s) : s[i] = c /\ \A j \in 1..(i - 1) : s[j] # c

\* s.split(c, 1)[0]
SplitHead(s, c) == IF HasChar(s, c) THEN SubSeq(s, 1, FirstIndex(s, c) - 1) ELSE s

\* s.split(c, 1)[1] (s holds a c)
SplitTail(s, c) == SubSeq(s, FirstIndex(s, c) + 1, Len(s))

RECURSIVE RStrip(_, _)
\* s.rstrip(c)
RStrip(s, c) ==
    IF Len(s) > 0 /\ s[Len(s)] = c THEN RStrip(SubSeq(s, 1, Len(s) - 1), c) ELSE s

(***************************************************************************)
(* String literals of the source.                                          *)
(***************************************************************************)
SEP == <<"/">>
MACOSX_PREFIX == <<"_","_","M","A","C","O","S","X","/">>
DOT_UNDERSCORE == <<".","_">>
INDEX_HTML == <<"i","n","d","e","x",".","h","t","m","l">>
EXT_HTML == <<".","h","t","m","l">>
EXT_CSS == <<".","c","s","s">>
EXT_JS == <<".","j","s">>
EXT_JSON == <<".","j","s","o","n">>
EXT_WASM == <<".","w","a","s","m">>
EXT_PNG == <<".","p","n","g">>
EXT_JPG == <<".","j","p","g">>
EXT_JPEG == <<".","j","p","e","g">>
EXT_SVG == <<".","s","v","g">>
EXT_GIF == <<".","g","i","f">>
EXT_ICO == <<".","i","c","o">>

(***************************************************************************)
(* The pure parts of upload.                                               *)
(***************************************************************************)

\* A sanitizer that lets the path separator through.
SanitizeCharKeepsSlash(c) == IF IsAlnum(c) \/ c \in {"-", "_", "/"} THEN c ELSE "_"

\* c if c.isalnum() or c in "-_" else "_"
SanitizeChar(c) == IF IsAlnum(c) \/ c \in {"-", "_"} THEN c ELSE "_"

\* safe_game_name = "".join(... for c in gameName)
Sanitize(name) == [i \in 1..Len(name) |-> SanitizeChar(name[i])]

\* A password gate that only asks for a non-empty password.
PasswordRejectedOnlyEmpty(password, expected) == password = <<>>

\* not uploadPassword or uploadPassword != expected_password
PasswordRejected(password, expected) == password = <<>> \/ password # expected

\* the filter of the validation pass
IsValidFile(name) ==
    /\ ~StartsWith(name, MACOSX_PREFIX)
    /\ ~StartsWith(name, DOT_UNDERSCORE)
    /\ ~EndsWith(name, SEP)

\* valid_files = [name for name in all_names if ...]
ValidFiles(all_names) == SelectSeq(all_names, IsValidFile)

\* has_index = any(name.lower().endswith("index.html") for name in valid_files)
HasIndex(files) == \E i \in 1..Len(files) : EndsWith(Lower(files[i]), INDEX_HTML)

\* ZipInfo.is_dir(): the name ends with the separator
IsDir(filename) == EndsWith(filename, SEP)

\* An upload loop that forgets the macOS folder test.
IsSkippedNoMacFolder(filename) == StartsWith(filename, DOT_UNDERSCORE) \/ IsDir(filename)

\* the skip test of the upload loop
IsSkipped(filename) ==
    \/ StartsWith(filename, MACOSX_PREFIX)
    \/ StartsWith(filename, DOT_UNDERSCORE)
    \/ IsDir(filename)

\* A root test that looks at the entry alone, not at every valid file.
EntryPathStripsOwnRoot(filename, files) ==
    IF HasChar(filename, "/") THEN SplitTail(filename, "/") ELSE filename

\* entry_path of one record: its name, without the first segment when every
\* valid file starts with that segment and a separator
EntryPath(filename, files) ==
    IF HasChar(filename, "/")
    THEN LET first_part == SplitHead(filename, "/")
         IN  IF \A i \in 1..Len(files) : StartsWith(files[i], first_part \o SEP)
             THEN SplitTail(filename, "/")
             ELSE filename
    ELSE filename

\* the content type chain
ContentType(entry_path) ==
    LET lower_name == Lower(entry_path)
    IN  IF EndsWith(lower_name, EXT_HTML) THEN "text/html"
        ELSE IF EndsWith(lower_name, EXT_CSS) THEN "text/css"
        ELSE IF EndsWith(lower_name, EXT_JS) THEN "application/javascript"
        ELSE IF EndsWith(lower_name, EXT_JSON) THEN "application/json"
        ELSE IF EndsWith(lower_name, EXT_WASM) THEN "application/wasm"
        ELSE IF EndsWith(lower_name, EXT_PNG) THEN "image/png"
        ELSE IF EndsWith(lower_name, EXT_JPG) THEN "image/jpeg"
        ELSE IF EndsWith(lower_name, EXT_JPEG) THEN "image/jpeg"
        ELSE IF EndsWith(lower_name, EXT_SVG) THEN "image/svg+xml"
        ELSE IF EndsWith(lower_name, EXT_GIF) THEN "image/gif"
        ELSE IF EndsWith(lower_name, EXT_ICO) THEN "image/x-icon"
        ELSE "application/octet-stream"

\* key = f"{safe_game_name}/{entry_path}"
Key(safe, entry_path) == safe \o SEP \o entry_path

\* game_url = f"{base.rstrip('/')}/{safe_game_name}/index.html"
GameUrl(base, safe) == RStrip(base, "/") \o SEP \o safe \o SEP \o INDEX_HTML

\* A put that replaces the whole bucket by the one object.
PutDropsOthers(bucket, key, object) == [k \in {key} |-> object]

\* s3.put_object(Key=key, Body=..., ContentType=...): the object at key is
\* created or overwritten, every other object stays
Put(bucket, key, object) ==
    [k \in (DOMAIN bucket) \cup {key} |-> IF k = key THEN object ELSE bucket[k]]

(***************************************************************************)
(* The inputs of a request.  Paths, names, passwords and base URLs are     *)
(* concrete strings; an archive is enumerated record by record.            *)
(***************************************************************************)
\* "index.html"
P_INDEX == <<"i","n","d","e","x",".","h","t","m","l">>
\* "style.css"
P_STYLE == <<"s","t","y","l","e",".","c","s","s">>
\* "main.js"
P_MAIN == <<"m","a","i","n",".","j","s">>
\* "game/index.html"
P_GAME_INDEX == <<"g","a","m","e","/","i","n","d","e","x",".","h","t","m","l">>
\* "game/main.js"
P_GAME_MAIN == <<"g","a","m","e","/","m","a","i","n",".","j","s">>
\* "game/"
P_GAME_DIR == <<"g","a","m","e","/">>
\* "__MACOSX/._index.html"
P_MAC_INDEX == <<"_","_","M","A","C","O","S","X","/",".","_","i","n","d","e","x",".","h","t","m","l">>
\* "._index.html"
P_DOT_INDEX == <<".","_","i","n","d","e","x",".","h","t","m","l">>
\* "game/._index.html"
P_GAME_DOT_INDEX == <<"g","a","m","e","/",".","_","i","n","d","e","x",".","h","t","m","l">>
\* "assets/index.html"
P_ASSETS_INDEX == <<"a","s","s","e","t","s","/","i","n","d","e","x",".","h","t","m","l">>
\* "xindex.html"
P_XINDEX == <<"x","i","n","d","e","x",".","h","t","m","l">>
\* "INDEX.HTML"
P_UPPER_INDEX == <<"I","N","D","E","X",".","H","T","M","L">>

Paths ==
    {P_INDEX,
     P_STYLE,
     P_MAIN,
     P_GAME_INDEX,
     P_GAME_MAIN,
     P_GAME_DIR,
     P_MAC_INDEX,
     P_DOT_INDEX,
     P_GAME_DOT_INDEX,
     P_ASSETS_INDEX,
     P_XINDEX,
     P_UPPER_INDEX}

\* A zip record: its name and its payload.
Rec(name, data) == [filename |-> name, data |-> data]

\* The bytes read from the upload: a zip archive (its records in archive
\* order) or bytes zipfile.ZipFile rejects with BadZipFile.
Zip(records) == [wellformed |-> TRUE, records |-> records]
Malformed == [wellformed |-> FALSE, records |-> <<>>]

\* {index.html, style.css, __MACOSX/._index.html}
ScenarioA == Zip(<<Rec(P_INDEX, 1), Rec(P_STYLE, 1), Rec(P_MAC_INDEX, 1)>>)
\* five usable files
FiveFiles ==
    Zip(<<Rec(P_INDEX, 1), Rec(P_STYLE, 1), Rec(P_MAIN, 1),
          Rec(P_ASSETS_INDEX, 1), Rec(P_XINDEX, 1)>>)
\* one name twice, with two payloads
TwiceIndex == Zip(<<Rec(P_INDEX, 1), Rec(P_INDEX, 2)>>)

\* Every archive of at most MaxEntries records over Paths, the longer
\* archives above, and bytes that are no zip.
Archives ==
    {Zip(r) : r \in UNION {[1..n -> {Rec(p, 1) : p \in Paths}] : n \in 0..MaxEntries}}
        \cup {ScenarioA, FiveFiles, TwiceIndex, Malformed}

\* The archives of SpecRepublish: a bundle, the bundle with a file removed
\* and new contents, the bundle under a root directory, and rejected uploads.
RepublishArchives ==
    {Zip(<<Rec(P_INDEX, 1), Rec(P_MAIN, 1)>>),
     Zip(<<Rec(P_INDEX, 2)>>),
     Zip(<<Rec(P_GAME_DIR, 0), Rec(P_GAME_INDEX, 1), Rec(P_GAME_MAIN, 2)>>),
     TwiceIndex,
     Zip(<<Rec(P_STYLE, 1)>>),
     Zip(<<>>),
     Malformed}

\* "g", "a b"
NAME_G == <<"g">>
NAME_A_B == <<"a"," ","b">>
\* "pw", "no"
PW_GOOD == <<"p","w">>
PW_BAD == <<"n","o">>
\* "h", "h/", "h//"
BASE == <<"h">>

\* The x-game-name and x-upload-password headers: absent, empty or set.
NameHeaders == {None, Some(<<>>), Some(NAME_G), Some(NAME_A_B)}
PasswordHeaders == {None, Some(<<>>), Some(PW_GOOD), Some(PW_BAD)}

\* os.environ of the container: complete, or with one variable missing.
GoodEnv ==
    [UPLOAD_PASSWORD |-> Some(PW_GOOD), R2_CREDENTIALS |-> TRUE,
     R2_BUCKET_NAME |-> TRUE, PUBLIC_GAME_URL_BASE |-> Some(BASE)]
Envs ==
    {GoodEnv,
     [GoodEnv EXCEPT !.PUBLIC_GAME_URL_BASE = Some(BASE \o SEP)],
     [GoodEnv EXCEPT !.PUBLIC_GAME_URL_BASE = Some(BASE \o SEP \o SEP)],
     [GoodEnv EXCEPT !.PUBLIC_GAME_URL_BASE = None],
     [GoodEnv EXCEPT !.UPLOAD_PASSWORD = None],
     [GoodEnv EXCEPT !.R2_CREDENTIALS = FALSE],
     [GoodEnv EXCEPT !.R2_BUCKET_NAME = FALSE]}

\* An object of the bucket.
Object(body, content_type) == [Body |-> body, ContentType |-> content_type]

\* The bucket before the first request: empty, or holding an earlier
\* publish of "g" and an object of another bundle.
EmptyStore == [k \in {} |-> Object(0, "")]
EarlierStore ==
    [k \in {Key(NAME_G, P_INDEX), Key(NAME_G, P_STYLE), Key(<<"o">>, P_INDEX)}
        |-> Object(9, "text/plain")]
InitialStores == {EmptyStore, EarlierStore}

(***************************************************************************)
(* The state: the handler's position and locals, the container's           *)
(* environment and the bucket; then what a request has done so far.        *)
(***************************************************************************)
VARIABLES
    pc,              \* where upload stands: idle, authorize, read, validate,
                     \* client, upload, returned (and the sanitizer's own)
    uploadPassword,  \* headers.get('x-upload-password')
    gameName,        \* headers.get('x-game-name')
    env,             \* os.environ
    zip_content,     \* await gameZip.read(), once read
    safe_game_name,
    valid_files,
    idx,             \* position of the upload loop in zf.infolist()
    uploaded_count,
    result,          \* what upload returned
    store,           \* the bucket: key -> object
    store0,          \* the bucket when the request arrived
    puts,            \* the put_object calls of the request that succeeded
    attempts,        \* the put_object calls of the request
    served,          \* requests received
    prev             \* the request before this one, once returned

vars ==
    <<pc, uploadPassword, gameName, env, zip_content, safe_game_name, valid_files,
      idx, uploaded_count, result, store, store0, puts, attempts, served, prev>>

locals == <<zip_content, safe_game_name, valid_files, idx, uploaded_count>>
request == <<uploadPassword, gameName, env, store0, served, prev>>

NoResult == [code |-> 0, kind |-> "none", gameName |-> <<>>, gameUrl |-> <<>>]

\* return {"error": ...}, code
Return(code, kind) ==
    /\ pc' = "returned"
    /\ result' = [code |-> code, kind |-> kind, gameName |-> <<>>, gameUrl |-> <<>>]

InitWith(stores) ==
    /\ pc = "idle"
    /\ uploadPassword = None
    /\ gameName = None
    /\ env \in Envs
    /\ zip_content = None
    /\ safe_game_name = <<>>
    /\ valid_files = <<>>
    /\ idx = 0
    /\ uploaded_count = 0
    /\ result = NoResult
    /\ store \in stores
    /\ store0 = store
    /\ puts = <<>>
    /\ attempts = 0
    /\ served = 0
    /\ prev = None

Init == InitWith(InitialStores)

InitRepublish == InitWith({EmptyStore})

\* A POST arrives: the handler starts with fresh locals.
RequestArrives ==
    /\ pc \in {"idle", "returned"}
    /\ uploadPassword' \in PasswordHeaders
    /\ gameName' \in NameHeaders
    /\ pc' = "authorize"
    /\ zip_content' = None
    /\ safe_game_name' = <<>>
    /\ valid_files' = <<>>
    /\ idx' = 0
    /\ uploaded_count' = 0
    /\ result' = NoResult
    /\ store0' = store
    /\ puts' = <<>>
    /\ attempts' = 0
    /\ served' = served + 1
    /\ prev' = IF served = 0
               THEN None
               ELSE Some([name |-> safe_game_name, zip |-> zip_content,
                          kind |-> result.kind])
    /\ UNCHANGED <<env, store>>

\* The one request of Spec.
Receive == served = 0 /\ RequestArrives

\* The requests of SpecRepublish, one after the other.
ReceiveNext == served < MaxRequests /\ RequestArrives

\* The header, password and name checks, and the sanitizer.
Authorize ==
    /\ pc = "authorize"
    /\ UNCHANGED <<request, store, puts, attempts, zip_content, valid_files, idx,
                   uploaded_count>>
    /\ IF gameName = None
       THEN Return(400, "missing_game_name_header") /\ UNCHANGED safe_game_name
       ELSE IF uploadPassword = None
       THEN Return(400, "missing_password_header") /\ UNCHANGED safe_game_name
       ELSE IF env.UPLOAD_PASSWORD = None \/ env.UPLOAD_PASSWORD = Some(<<>>)
       THEN Return(500, "missing_upload_credential") /\ UNCHANGED safe_game_name
       ELSE IF PasswordRejected(uploadPassword[1], env.UPLOAD_PASSWORD[1])
       THEN Return(401, "unauthorized") /\ UNCHANGED safe_game_name
       ELSE IF gameName[1] = <<>>
       THEN Return(400, "missing_game_name") /\ UNCHANGED safe_game_name
       ELSE /\ safe_game_name' = Sanitize(gameName[1])
            /\ pc' = "read"
            /\ UNCHANGED result

\* zip_content = await gameZip.read(), or the read raises
ReadFrom(archives) ==
    /\ pc = "read"
    /\ UNCHANGED <<request, store, puts, attempts, safe_game_name, valid_files, idx,
                   uploaded_count>>
    /\ \/ \E a \in archives :
             /\ zip_content' = Some(a)
             /\ pc' = "validate"
             /\ UNCHANGED result
       \/ Return(400, "read_failed") /\ UNCHANGED zip_content

ReadZip == ReadFrom(Archives)

ReadZipRepublish == ReadFrom(RepublishArchives)

\* zf.namelist()
Namelist(zip) == [i \in 1..Len(zip.records) |-> zip.records[i].filename]

\* The validation pass over the archive.
ValidateZip ==
    /\ pc = "validate"
    /\ UNCHANGED <<request, store, puts, attempts, zip_content, safe_game_name, idx,
                   uploaded_count>>
    /\ IF ~zip_content[1].wellformed
       THEN Return(400, "bad_zip") /\ UNCHANGED valid_files
       ELSE /\ valid_files' = ValidFiles(Namelist(zip_content[1]))
            /\ IF valid_files' = <<>>
               THEN Return(400, "no_usable_files")
               ELSE IF ~HasIndex(valid_files')
               THEN Return(400, "missing_index")
               ELSE pc' = "client" /\ UNCHANGED result

\* s3 = boto3.client(...): os.environ[...] raises KeyError without credentials
InitClient ==
    /\ pc = "client"
    /\ UNCHANGED <<request, store, puts, attempts, zip_content, safe_game_name,
                   valid_files>>
    /\ IF ~env.R2_CREDENTIALS
       THEN Return(500, "store_unavailable") /\ UNCHANGED <<idx, uploaded_count>>
       ELSE /\ pc' = "upload"
            /\ idx' = 1
            /\ uploaded_count' = 0
            /\ UNCHANGED result

\* The record the upload loop stands at.
Info == zip_content[1].records[idx]

InLoop == pc = "upload" /\ idx <= Len(zip_content[1].records)

\* The record is published (neither skipped nor emptied by the root strip).
Published(filename) ==
    ~IsSkipped(filename) /\ EntryPath(filename, valid_files) # <<>>

\* One turn of the upload loop that ends well: the record is skipped, or
\* read and written.  Without R2_BUCKET_NAME the argument list of put_object
\* raises KeyError before the call.
UploadEntry ==
    /\ InLoop
    /\ UNCHANGED <<request, zip_content, safe_game_name, valid_files>>
    /\ IF ~Published(Info.filename)
       THEN /\ idx' = idx + 1
            /\ UNCHANGED <<pc, result, store, puts, attempts, uploaded_count>>
       ELSE IF ~env.R2_BUCKET_NAME
       THEN /\ Return(500, "upload_error")
            /\ UNCHANGED <<idx, store, puts, attempts, uploaded_count>>
       ELSE LET entry_path == EntryPath(Info.filename, valid_files)
                key == Key(safe_game_name, entry_path)
            IN  /\ store' = Put(store, key, Object(Info.data, ContentType(entry_path)))
                /\ puts' = Append(puts, [key |-> key, entry_path |-> entry_path,
                                         filename |-> Info.filename, data |-> Info.data])
                /\ attempts' = attempts + 1
                /\ uploaded_count' = uploaded_count + 1
                /\ idx' = idx + 1
                /\ UNCHANGED <<pc, result>>

\* A failed write that is swallowed: the loop goes on to the next record.
PutFailsAndContinues ==
    /\ InLoop
    /\ Published(Info.filename)
    /\ env.R2_BUCKET_NAME
    /\ attempts' = attempts + 1
    /\ idx' = idx + 1
    /\ UNCHANGED <<pc, result, request, zip_content, safe_game_name, valid_files,
                   uploaded_count, store, puts>>

\* s3.put_object raises: the except clause of the loop returns the error,
\* with the objects written so far left in the bucket.
PutFails ==
    /\ InLoop
    /\ Published(Info.filename)
    /\ env.R2_BUCKET_NAME
    /\ attempts' = attempts + 1
    /\ Return(500, "upload_error")
    /\ UNCHANGED <<request, locals, store, puts>>

\* zf.open(info) or file.read() raises: the same except clause.
EntryReadFails ==
    /\ InLoop
    /\ Published(Info.filename)
    /\ Return(500, "upload_error")
    /\ UNCHANGED <<request, locals, store, puts, attempts>>

\* After the loop: the URL and the success result.  Without
\* PUBLIC_GAME_URL_BASE os.environ[...] raises KeyError outside any try.
Finish ==
    /\ pc = "upload"
    /\ idx > Len(zip_content[1].records)
    /\ UNCHANGED <<request, locals, store, puts, attempts>>
    /\ pc' = "returned"
    /\ IF env.PUBLIC_GAME_URL_BASE = None
       THEN result' = [code |-> 500, kind |-> "uncaught_key_error",
                       gameName |-> <<>>, gameUrl |-> <<>>]
       ELSE result' = [code |-> 200, kind |-> "complete",
                       gameName |-> safe_game_name,
                       gameUrl |-> GameUrl(env.PUBLIC_GAME_URL_BASE[1], safe_game_name)]

\* One request, with any archive of Archives, against any initial bucket.
Next ==
    \/ Receive
    \/ ReadZip
    \/ Authorize
    \/ ValidateZip
    \/ InitClient
    \/ UploadEntry
    \/ PutFails
    \/ EntryReadFails
    \/ Finish

Spec == Init /\ [][Next]_vars

\* MaxRequests requests in a row, with the archives of RepublishArchives.
NextRepublish ==
    \/ ReceiveNext
    \/ ReadZipRepublish
    \/ Authorize
    \/ ValidateZip
    \/ InitClient
    \/ UploadEntry
    \/ PutFails
    \/ EntryReadFails
    \/ Finish

SpecRepublish == InitRepublish /\ [][NextRepublish]_vars

(***************************************************************************)
(* The name sanitizer on its own: applied to an input, then to its output. *)
(***************************************************************************)
SanitizerAlphabet == {"a", "Z", "7", "-", "_", " ", "!", "/", "."}

\* "My Game!"
NAME_MY_GAME == <<"M","y"," ","G","a","m","e","!">>
\* "My_Game_"
NAME_MY_GAME_SAFE == <<"M","y","_","G","a","m","e","_">>

SanitizerInputs ==
    UNION {[1..n -> SanitizerAlphabet] : n \in 0..MaxNameLen} \cup {NAME_MY_GAME}

InitSanitize ==
    /\ pc = "sanitize"
    /\ uploadPassword = None
    /\ gameName \in {Some(n) : n \in SanitizerInputs}
    /\ env = GoodEnv
    /\ zip_content = None
    /\ safe_game_name = <<>>
    /\ valid_files = <<>>
    /\ idx = 0
    /\ uploaded_count = 0
    /\ result = NoResult
    /\ store = EmptyStore
    /\ store0 = store
    /\ puts = <<>>
    /\ attempts = 0
    /\ served = 0
    /\ prev = None

SanitizeName ==
    /\ pc = "sanitize"
    /\ safe_game_name' = Sanitize(gameName[1])
    /\ pc' = "sanitized"
    /\ UNCHANGED <<request, zip_content, valid_files, idx, uploaded_count, result,
                   store, puts, attempts>>

SanitizeAgain ==
    /\ pc = "sanitized"
    /\ gameName' = Some(safe_game_name)
    /\ safe_game_name' = Sanitize(safe_game_name)
    /\ pc' = "resanitized"
    /\ UNCHANGED <<uploadPassword, env, store0, served, prev, zip_content, valid_files,
                   idx, uploaded_count, result, store, puts, attempts>>

NextSanitize ==
    \/ SanitizeName
    \/ SanitizeAgain

SpecSanitize == InitSanitize /\ [][NextSanitize]_vars

(***************************************************************************)
(* Notions of the specification the properties are stated with.            *)
(***************************************************************************)
RECURSIVE FinalSegment(_)
\* The part of a path after its last separator.
FinalSegment(p) == IF HasChar(p, "/") THEN FinalSegment(SplitTail(p, "/")) ELSE p

\* The part of a path before its first separator (the path without one).
FirstSegment(p) == SplitHead(p, "/")

\* macOS packaging metadata or a directory marker.
IsMacMetadata(p) ==
    \/ StartsWith(p, MACOSX_PREFIX)
    \/ StartsWith(FinalSegment(p), DOT_UNDERSCORE)
    \/ EndsWith(p, SEP)

\* Some file's final segment is index.html, whatever its case.
HasIndexSegment(files) ==
    \E i \in 1..Len(files) : FinalSegment(Lower(files[i])) = INDEX_HTML

\* Every file starts with the first segment of the first one and a separator.
SharedRoot(files) ==
    /\ files # <<>>
    /\ \A i \in 1..Len(files) : StartsWith(files[i], FirstSegment(files[1]) \o SEP)

\* EffectiveRoot, computed once over the usable set.
EffectiveRoot(files) == IF SharedRoot(files) THEN Some(FirstSegment(files[1])) ELSE None

\* A path without the root and its separator.
WithoutRoot(p, root) == SubSeq(p, Len(root) + 2, Len(p))

\* The published path of a usable entry under the once-computed root.
PublishedPath(p, files) ==
    IF EffectiveRoot(files) = None THEN p ELSE WithoutRoot(p, EffectiveRoot(files)[1])

\* The last successful write of the request to the key of its i-th write.
LastPut(i) ==
    puts[CHOOSE j \in 1..Len(puts) :
            /\ puts[j].key = puts[i].key
            /\ \A k \in (j + 1)..Len(puts) : puts[k].key # puts[i].key]

\* The keys the request has written.
WrittenKeys == {puts[i].key : i \in 1..Len(puts)}

\* Every write so far is in the bucket with its contents, and every object
\* the request has not written is as it was when the request arrived.
WritesCommitted ==
    /\ \A i \in 1..Len(puts) :
          /\ puts[i].key \in DOMAIN store
          /\ store[puts[i].key].Body = LastPut(i).data
    /\ \A k \in DOMAIN store0 : k \in DOMAIN store
    /\ \A k \in DOMAIN store : k \notin WrittenKeys => k \in DOMAIN store0 /\ store[k] = store0[k]

Returned(kind) == pc = "returned" /\ result.kind = kind

GatesPassed ==
    /\ gameName # None
    /\ uploadPassword # None
    /\ env.UPLOAD_PASSWORD # None
    /\ uploadPassword[1] = env.UPLOAD_PASSWORD[1]
    /\ gameName[1] # <<>>
    /\ zip_content # None
    /\ zip_content[1].wellformed
    /\ ValidFiles(Namelist(zip_content[1])) # <<>>
    /\ HasIndex(ValidFiles(Namelist(zip_content[1])))
    /\ env.R2_CREDENTIALS

GateErrors ==
    {"missing_game_name_header", "missing_password_header", "unauthorized",
     "missing_game_name", "bad_zip", "no_usable_files", "missing_index",
     "store_unavailable"}

(***************************************************************************)
(* C1: no put_object is issued unless every earlier gate of the request    *)
(* has passed (both headers present, the password equal to the configured  *)
(* UPLOAD_PASSWORD, a non-empty name, a well-formed zip, a non-empty       *)
(* filtered list, an index.html match, a store client), and a request that *)
(* ends with one of the gate errors leaves the bucket as it was.           *)
(***************************************************************************)
C1_NoWriteBeforeGates ==
    /\ (attempts > 0 \/ store # store0) => GatesPassed
    /\ (pc = "returned" /\ result.kind \in GateErrors) => (attempts = 0 /\ store = store0)

\* The last gate fails against a bucket that holds objects.
C1_Witness ==
    /\ Returned("store_unavailable")
    /\ store0 = EarlierStore
    /\ valid_files # <<>>

(***************************************************************************)
(* C2: no entry under __MACOSX/, no entry whose final path segment starts  *)
(* with ._ (at any depth) and no directory marker is counted as a usable   *)
(* file by validation or written to the bucket.                            *)
(***************************************************************************)
C2_NoMetadataUsableOrWritten ==
    /\ \A i \in 1..Len(valid_files) : ~IsMacMetadata(valid_files[i])
    /\ \A i \in 1..Len(puts) : ~IsMacMetadata(puts[i].filename)

PassedIndexCheck ==
    \/ pc \in {"client", "upload"}
    \/ pc = "returned" /\ result.kind \in
          {"store_unavailable", "upload_error", "complete", "uncaught_key_error"}

(***************************************************************************)
(* C3: validation passes the entry-page check if and only if some usable   *)
(* entry's path ends, case-insensitively, with the path segment            *)
(* index.html; otherwise the request fails with missing_index and nothing  *)
(* is published.                                                           *)
(***************************************************************************)
C3_IndexSegmentIff ==
    /\ PassedIndexCheck => HasIndexSegment(valid_files)
    /\ Returned("missing_index") =>
          (~HasIndexSegment(valid_files) /\ attempts = 0 /\ store = store0)

(***************************************************************************)
(* C4: root-stripping is all-or-nothing within a request: every write of   *)
(* the request uses the path the once-computed EffectiveRoot gives (the    *)
(* first segment removed when every usable entry starts with it and a      *)
(* separator, the original path for every entry otherwise).                *)
(***************************************************************************)
C4_RootStripAllOrNothing ==
    /\ \A i \in 1..Len(puts) :
          puts[i].entry_path = PublishedPath(puts[i].filename, valid_files)
    /\ (\E j \in 1..Len(valid_files) :
            \/ ~HasChar(valid_files[j], "/")
            \/ FirstSegment(valid_files[j]) # FirstSegment(valid_files[1]))
          => \A i \in 1..Len(puts) : puts[i].entry_path = puts[i].filename

\* Two entries under one root, both written without it.
C4_Witness ==
    /\ Returned("complete")
    /\ Len(puts) = 2
    /\ EffectiveRoot(valid_files) = Some(<<"g","a","m","e">>)
    /\ puts[2].entry_path = P_MAIN

(***************************************************************************)
(* C5: when the usable entries share one root directory and index.html     *)
(* lies directly under it, a successful upload writes exactly one object   *)
(* per usable entry, in order, under SafeBundleName/(path without the      *)
(* root), and writes nothing else.                                         *)
(***************************************************************************)
C5_SharedRootPublish ==
    (/\ Returned("complete")
     /\ SharedRoot(valid_files)
     /\ \E i \in 1..Len(valid_files) :
           valid_files[i] = FirstSegment(valid_files[1]) \o SEP \o INDEX_HTML)
    => /\ uploaded_count = Len(valid_files)
       /\ Len(puts) = Len(valid_files)
       /\ attempts = Len(valid_files)
       /\ \A i \in 1..Len(puts) :
             /\ puts[i].filename = valid_files[i]
             /\ puts[i].key = safe_game_name \o SEP
                                \o WithoutRoot(valid_files[i], FirstSegment(valid_files[1]))
             /\ puts[i].key \in DOMAIN store

\* game/index.html and game/main.js published as g/index.html and g/main.js.
C5_Witness ==
    /\ Returned("complete")
    /\ valid_files = <<P_GAME_INDEX, P_GAME_MAIN>>
    /\ safe_game_name = NAME_G
    /\ WrittenKeys = {Key(NAME_G, P_INDEX), Key(NAME_G, P_MAIN)}

(***************************************************************************)
(* C6: when the k-th write fails the request returns one error, the k-1    *)
(* objects written before it stay in the bucket with their new contents,   *)
(* no later entry is written, the failed write is not retried and nothing  *)
(* is deleted or rolled back.                                              *)
(***************************************************************************)
C6_WriteFailureKeepsEarlierWrites ==
    /\ attempts \in {Len(puts), Len(puts) + 1}
    /\ attempts = Len(puts) + 1 =>
          /\ Returned("upload_error")
          /\ result.code = 500
          /\ uploaded_count = Len(puts)
          /\ \A i \in 1..Len(puts) : puts[i].filename = valid_files[i]
          /\ WritesCommitted

\* The third write of five fails: two objects are in the bucket.
C6_Witness ==
    /\ Returned("upload_error")
    /\ attempts = 3
    /\ Len(puts) = 2
    /\ Len(valid_files) = 5
    /\ store0 = EmptyStore
    /\ DOMAIN store = {Key(safe_game_name, P_INDEX), Key(safe_game_name, P_STYLE)}

AllowedChar(c) == IsAlnum(c) \/ c = "-" \/ c = "_"

(***************************************************************************)
(* C7: the sanitizer is total and idempotent: the output has the length of *)
(* the input, keeps each character that is alphanumeric, - or _ and puts _ *)
(* for every other one, so that every output character is alphanumeric, -  *)
(* or _ (never /), and sanitizing the output again changes nothing.        *)
(***************************************************************************)
C7_SanitizeTotalIdempotent ==
    pc \in {"sanitized", "resanitized"} =>
        /\ Len(safe_game_name) = Len(gameName[1])
        /\ \A i \in 1..Len(gameName[1]) :
              /\ AllowedChar(gameName[1][i]) => safe_game_name[i] = gameName[1][i]
              /\ ~AllowedChar(gameName[1][i]) => safe_game_name[i] = "_"
              /\ AllowedChar(safe_game_name[i])
              /\ safe_game_name[i] # "/"
        /\ pc = "resanitized" => safe_game_name = gameName[1]

\* "My Game!" becomes "My_Game_".
C7_Witness ==
    /\ pc = "sanitized"
    /\ gameName = Some(NAME_MY_GAME)
    /\ safe_game_name = NAME_MY_GAME_SAFE

OwnKeys ==
    {Key(safe_game_name, PublishedPath(valid_files[i], valid_files)) :
        i \in 1..Len(valid_files)}

(***************************************************************************)
(* C8: a request changes only the keys SafeBundleName/publishedPath of its *)
(* own usable entries, overwriting what was there; every other key keeps   *)
(* its object and nothing is deleted, so an object of an earlier publish   *)
(* whose file the new archive lacks stays; and publishing the same archive *)
(* under the same name again leaves the bucket as the first publish left   *)
(* it.                                                                     *)
(***************************************************************************)
C8_PublishFrame ==
    /\ WrittenKeys \subseteq OwnKeys
    /\ WritesCommitted
    /\ \A k \in DOMAIN store0 :
          k \notin OwnKeys => (k \in DOMAIN store /\ store[k] = store0[k])
    /\ (/\ Returned("complete")
        /\ prev # None
        /\ prev[1].kind = "complete"
        /\ prev[1].name = safe_game_name
        /\ prev[1].zip = zip_content)
       => store = store0

\* index.html and main.js were published as "g"; the archive published next
\* under "g" holds only index.html: main.js is still there, index.html is new.
C8_Witness ==
    /\ Returned("complete")
    /\ prev # None
    /\ prev[1].kind = "complete"
    /\ prev[1].name = NAME_G
    /\ prev[1].zip = Some(Zip(<<Rec(P_INDEX, 1), Rec(P_MAIN, 1)>>))
    /\ safe_game_name = NAME_G
    /\ zip_content = Some(Zip(<<Rec(P_INDEX, 2)>>))
    /\ store[Key(NAME_G, P_MAIN)] = Object(1, "application/javascript")
    /\ store[Key(NAME_G, P_INDEX)] = Object(2, "text/html")

(***************************************************************************)
(* C9: no two writes of one request target the same key.                   *)
(***************************************************************************)
C9_KeysUniquePerEntry ==
    \A i, j \in 1..Len(puts) : i # j => puts[i].key # puts[j].key

(***************************************************************************)
(* C10: a request that returns status complete returns the base URL,       *)
(* without trailing /, followed by /SafeBundleName/index.html, and has     *)
(* written an object under the key SafeBundleName/index.html.              *)
(***************************************************************************)
C10_EntryUrlIsPublished ==
    Returned("complete") =>
        /\ result.gameUrl = RStrip(env.PUBLIC_GAME_URL_BASE[1], "/") \o SEP
                              \o safe_game_name \o SEP \o INDEX_HTML
        /\ Key(safe_game_name, INDEX_HTML) \in WrittenKeys

====
